---- MODULE Spec2Model ----
(***************************************************************************)
(* Model of the Telegram -> webhook courier:                               *)
(*   TelegramListener  (src/src/services/telegramListener.ts, 20-438)      *)
(*   WebhookForwarder  (src/src/services/telegramListener.ts, 447-615)     *)
(*   main              (src/src/config.ts, 120-230)                        *)
(*                                                                         *)
(* JavaScript strings are modelled as sequences of one-character strings,  *)
(* so that replace(/^@/, ''), toLowerCase() and String(n) are computed and *)
(* not assumed.  An absent (undefined) optional string and the empty       *)
(* string are both falsy in every test the code makes on them; both are    *)
(* the empty sequence here.                                                *)
(***************************************************************************)
EXTENDS Naturals, Sequences, FiniteSets, Bags, TLC

(***************************************************************************)
(* Bounds of the model.                                                    *)
(***************************************************************************)
\* processedMessages is bounded by MAX_CACHE_SIZE, 1000 in the source
\* (telegramListener.ts:30).  The model runs the same code with a small
\* capacity so that the eviction branch is reached.
MAX_CACHE_SIZE == 2
\* handler invocations that may be suspended at an await at the same time
MaxTasks == 2
\* the environment stops announcing messages once one of them was handed to
\* the message handler this many times
MaxDeliveries == 2
\* longest mapping list drawn for the matcher/forwarder checks
MaxMappings == 2

(***************************************************************************)
(* Strings.                                                                *)
(***************************************************************************)
S_empty == <<>>
S_News == <<"N", "e", "w", "s">>
S_news == <<"n", "e", "w", "s">>
S_atNews == <<"@", "N", "e", "w", "s">>
S_atnews == <<"@", "n", "e", "w", "s">>
S_12345 == <<"1", "2", "3", "4", "5">>
S_42 == <<"4", "2">>
S_43 == <<"4", "3">>
S_unknown == <<"u", "n", "k", "n", "o", "w", "n">>
\* String(obj) of a plain object
S_object == <<"[", "o", "b", "j", "e", "c", "t", " ", "O", "b", "j", "e", "c", "t", "]">>

\* a JavaScript value used as a condition: '' and undefined are falsy
Truthy(s) == Len(s) > 0

\* s.replace(/^@/, ''): removes one leading "@"
StripAt(s) == IF Len(s) > 0 /\ s[1] = "@" THEN Tail(s) ELSE s

LowerChar(c) ==
    CASE c = "N" -> "n"
      [] c = "O" -> "o"
      [] OTHER -> c

\* s.toLowerCase()
toLowerCase(s) == [i \in 1..Len(s) |-> LowerChar(s[i])]

Digit(d) == <<"0", "1", "2", "3", "4", "5", "6", "7", "8", "9">>[d + 1]

RECURSIVE NatToStr(_)
\* String(n) for a non-negative integer
NatToStr(n) == IF n < 10 THEN <<Digit(n)>> ELSE NatToStr(n \div 10) \o <<Digit(n % 10)>>

(***************************************************************************)
(* WebhookForwarder: route lookup.                                         *)
(***************************************************************************)
NoUrl == "null"

\* matchesChannel with the username compared case-sensitively
matchesChannel_caseSensitive(message, target) ==
    LET normalizedTarget == StripAt(target)
    IN  \/ /\ Truthy(message.chatUsername)
           /\ \/ StripAt(message.chatUsername) = normalizedTarget
              \/ message.chatUsername = target
        \/ /\ Truthy(message.chatTitle)
           /\ \/ message.chatTitle = normalizedTarget
              \/ message.chatTitle = target
        \/ Truthy(message.chatId) /\ message.chatId = target

\* matchesChannel without the comparison of the channel id
matchesChannel_noId(message, target) ==
    LET normalizedTarget == toLowerCase(StripAt(target))
    IN  \/ /\ Truthy(message.chatUsername)
           /\ \/ toLowerCase(StripAt(message.chatUsername)) = normalizedTarget
              \/ message.chatUsername = target
        \/ /\ Truthy(message.chatTitle)
           /\ \/ toLowerCase(message.chatTitle) = normalizedTarget
              \/ message.chatTitle = target

matchesChannel(message, target) ==
    LET normalizedTarget == toLowerCase(StripAt(target))
    IN  \/ /\ Truthy(message.chatUsername)
           /\ \/ toLowerCase(StripAt(message.chatUsername)) = normalizedTarget
              \/ message.chatUsername = target
        \/ /\ Truthy(message.chatTitle)
           /\ \/ toLowerCase(message.chatTitle) = normalizedTarget
              \/ message.chatTitle = target
        \/ Truthy(message.chatId) /\ message.chatId = target

RECURSIVE findWebhookUrl_last(_, _)
\* findWebhookUrl that keeps scanning and returns the last match
findWebhookUrl_last(mappings, message) ==
    IF mappings = <<>>
    THEN NoUrl
    ELSE LET n == Len(mappings)
         IN  IF matchesChannel(message, mappings[n].telegramChannel)
             THEN mappings[n].webhookUrl
             ELSE findWebhookUrl_last(SubSeq(mappings, 1, n - 1), message)

RECURSIVE findWebhookUrl(_, _)
findWebhookUrl(mappings, message) ==
    IF mappings = <<>>
    THEN NoUrl
    ELSE IF matchesChannel(message, Head(mappings).telegramChannel)
         THEN Head(mappings).webhookUrl
         ELSE findWebhookUrl(Tail(mappings), message)

(***************************************************************************)
(* TelegramListener: the processed-message cache.                          *)
(* processedMessages is a JavaScript Set, which iterates in insertion      *)
(* order; it is the sequence of its keys in that order.                    *)
(***************************************************************************)
PeerKinds == {"channel", "chat", "user"}
NoPeer == [kind |-> "none", id |-> 0]

\* chatIdForDedup: the peer kind is not part of the string
chatIdForDedup(peerId) ==
    IF peerId.kind \in PeerKinds THEN NatToStr(peerId.id) ELSE S_unknown

messageKey(message) == chatIdForDedup(message.peerId) \o <<":">> \o NatToStr(message.id)

SetHas(set, key) == \E i \in 1..Len(set) : set[i] = key

\* Set.add that forgets the key
SetAdd_forget(set, key) == set

\* Set.add: a key already present keeps its place
SetAdd(set, key) == IF SetHas(set, key) THEN set ELSE Append(set, key)

RECURSIVE evictLoop_newest(_, _)
\* the eviction loop deleting from the newest end
evictLoop_newest(set, i) ==
    IF 2 * i < MAX_CACHE_SIZE
    THEN evictLoop_newest(IF set = <<>> THEN set ELSE SubSeq(set, 1, Len(set) - 1), i + 1)
    ELSE set

RECURSIVE evictLoop(_, _)
\* for (let i = 0; i < MAX_CACHE_SIZE / 2; i++) delete iterator.next().value
\* (the division is a floating-point one: i < C/2 iff 2*i < C)
evictLoop(set, i) ==
    IF 2 * i < MAX_CACHE_SIZE
    THEN evictLoop(IF set = <<>> THEN set ELSE Tail(set), i + 1)
    ELSE set

\* the cache that never evicts
manageCache_never(set) == set

\* if (size > MAX_CACHE_SIZE) { evict }
manageCache(set) == IF Len(set) > MAX_CACHE_SIZE THEN evictLoop(set, 0) ELSE set

\* the dedup step without its has(key) test
shouldProcess_always(set, key) ==
    [process |-> TRUE, cache |-> manageCache(SetAdd(set, key))]

\* has(key) ? return : add(key), manage the size
\* the result says whether the message goes on, and gives the cache afterwards
shouldProcess(set, key) ==
    IF SetHas(set, key)
    THEN [process |-> FALSE, cache |-> set]
    ELSE [process |-> TRUE, cache |-> manageCache(SetAdd(set, key))]

(***************************************************************************)
(* TelegramListener: identity resolution.                                  *)
(***************************************************************************)
\* the id read off the peer reference by handleNewMessage (lines 374-380):
\* channelId, else userId, else the peer object itself, stringified
peerIdString(peerId) ==
    IF peerId.kind = "channel" THEN NatToStr(peerId.id)
    ELSE IF peerId.kind = "user" THEN NatToStr(peerId.id)
    ELSE S_object

\* if (!chatUsername && !chatTitle && !chatId) skip the message
Identified(chatUsername, chatTitle, chatId) ==
    Truthy(chatUsername) \/ Truthy(chatTitle) \/ Truthy(chatId)

(***************************************************************************)
(* WebhookForwarder: media and delivery.                                   *)
(***************************************************************************)
\* message.media: nothing, a MessageMediaPhoto, a MessageMediaDocument, or
\* another media class (web page, geo point, ...); present says whether the
\* media carries its photo / document object, size is the document's size
NoMedia == [kind |-> "none", size |-> 0, present |-> FALSE]
Photo == [kind |-> "photo", size |-> 0, present |-> TRUE]
Document(size) == [kind |-> "document", size |-> size, present |-> TRUE]

\* const maxSize = 8 * 1024 * 1024
maxSize == 8 * 1024 * 1024

\* downloadMedia without the size test of line 576
downloadAttempted_noGate(media, clientNow) ==
    /\ media.kind # "none"
    /\ clientNow # "null"
    /\ \/ media.kind = "photo" /\ media.present
       \/ media.kind = "document" /\ media.present

\* downloadMedia up to its await: TRUE when client.downloadMedia is called
downloadAttempted(media, clientNow) ==
    /\ media.kind # "none"
    /\ clientNow # "null"
    /\ \/ media.kind = "photo" /\ media.present
       \/ media.kind = "document" /\ media.present /\ ~(media.size > maxSize)

\* what client.downloadMedia can do: resolve with a Buffer holding the bytes,
\* with an empty Buffer, with undefined, or reject
DownloadOutcomes == {"buffer", "empty", "nothing", "throw"}

\* the bytes the download obtained (one stands for any positive number)
downloadedBytes(outcome) == IF outcome = "buffer" THEN 1 ELSE 0

\* the files downloadMedia returns, by what client.downloadMedia did:
\* if (buffer && Buffer.isBuffer(buffer)) files.push(...) holds for every
\* Buffer, the empty one included; undefined gives no file, and neither does
\* an exception (caught at line 609)
downloadedFiles(outcome) == IF outcome \in {"buffer", "empty"} THEN 1 ELSE 0

S_dots == <<".", ".", ".">>

\* the truncation that cuts at 4000 and appends no marker
description_noMarker(text) ==
    IF Len(text) > 4000 THEN SubSeq(text, 1, 4000) ELSE text

\* embed.description (lines 515-518); an empty text sets no description
description(text) ==
    IF Len(text) > 4000 THEN SubSeq(text, 1, 3997) \o S_dots ELSE text

\* files.length > 0 ? multipart/form-data : application/json
requestKind(files) == IF files > 0 THEN "multipart" ELSE "json"

\* sendToWebhook(webhookUrl, message, sourceName) up to its axios.post:
\* the embed's description, what downloadMedia did, and the one request made
sendToWebhook(text, media, clientNow, outcome) ==
    LET attempted == downloadAttempted(media, clientNow)
        files == IF attempted THEN downloadedFiles(outcome) ELSE 0
    IN  [description |-> description(text),
         attempted |-> attempted,
         files |-> files,
         bytes |-> IF attempted THEN downloadedBytes(outcome) ELSE 0,
         posts |-> 1,
         request |-> requestKind(files)]

\* forward without its try/catch around sendToWebhook
forwardCompletion_noCatch(sendResult) ==
    IF sendResult = "rejected" THEN "threw" ELSE "returned"

\* try { await sendToWebhook(...) } catch (error) { console.error(...) }
forwardCompletion(sendResult) ==
    IF sendResult = "rejected" THEN "returned" ELSE "returned"

\* axios.post rejects on a network error and on a non-2xx status;
\* sendToWebhook does not catch it
sendToWebhookResult(postOutcome) ==
    IF postOutcome = "ok" THEN "resolved" ELSE "rejected"

(***************************************************************************)
(* The environment: peers, their entities, the messages they carry.        *)
(***************************************************************************)
Channel42 == [kind |-> "channel", id |-> 42]
Channel43 == [kind |-> "channel", id |-> 43]
User42 == [kind |-> "user", id |-> 42]
Peers == {Channel42, Channel43, User42}

MinMsgId == 7
\* channel 42 carries as many messages as the cache has room for, so that
\* with the other peers' messages the cache overflows
MsgIds == MinMsgId .. (MinMsgId + MAX_CACHE_SIZE - 1)

\* Api.Message objects: those of channel 42, one of every other peer, and
\* one that carries no peerId
Messages ==
    [peerId : {Channel42}, id : MsgIds]
        \cup [peerId : {Channel43, User42, NoPeer}, id : {MinMsgId}]

\* what getEntity / getChat give for a peer when they succeed
Entity(peerId) ==
    IF peerId = Channel42 THEN [username |-> S_news, title |-> S_News]
    ELSE IF peerId = Channel43 THEN [username |-> S_empty, title |-> S_12345]
    ELSE [username |-> S_empty, title |-> S_empty]

\* the media a message carries
MediaOf(message) ==
    IF message.id = MinMsgId THEN NoMedia
    ELSE IF message.id = MinMsgId + 1 THEN Photo
    ELSE Document(9000000)

\* names usable in the poll list, and the peer getMessages resolves each to
PollNames == {"news", "other"}
ResolvePoll(channelName) == IF channelName = "news" THEN Channel42 ELSE Channel43
PollLists == {<<>>, <<"news">>, <<"news", "other">>}

\* CHANNEL_MAPPINGS of the running system
RunMappings ==
    << [telegramChannel |-> S_atNews, webhookUrl |-> "urlA"],
       [telegramChannel |-> S_42, webhookUrl |-> "urlB"] >>

(***************************************************************************)
(* State.                                                                  *)
(***************************************************************************)
VARIABLES
    mainPc,             \* where main() (config.ts:192-225) and its shutdown handler stand
    client,             \* TelegramListener.client (line 21): "null" or "client"
    messageHandler,     \* TelegramListener.messageHandler (line 26) is set
    handlersRegistered, \* registerEventHandlers (lines 186-221) has run
    processedMessages,  \* TelegramListener.processedMessages (line 28), in insertion order
    channelsToPoll,     \* TelegramListener.channelsToPoll (line 33)
    currentPollIndex,   \* TelegramListener.currentPollIndex (line 34)
    pollingInterval,    \* TelegramListener.pollingInterval (line 35) is a live timer
    channelMappings,    \* WebhookForwarder.channelMappings (line 448)
    tasks,              \* bag of the handler invocations suspended at an await
    handled,            \* history: per message, calls of the message handler (forward)
    posts,              \* history: per message, axios.post calls issued
    postFailed,         \* history: the first failed POST: its message, and the POSTs made for it by then
    forwardExits,       \* history: how the calls of forward ended so far
    firstChecks,        \* history: the first handler entries of the run, in order
    lateCalls,          \* history: the callbacks that fired after stop() had completed
    pollLog,            \* history: what the latest firings of the poll timer asked for (SpecPoll)
    probe               \* the direct call made in SpecMatch, SpecSend, SpecResolve: input and result

vars == <<mainPc, client, messageHandler, handlersRegistered, processedMessages,
          channelsToPoll, currentPollIndex, pollingInterval, channelMappings,
          tasks, handled, posts, postFailed, forwardExits, firstChecks, lateCalls,
          pollLog, probe>>

lifeVars == <<mainPc, client, messageHandler, handlersRegistered>>
pollVars == <<channelsToPoll, currentPollIndex, pollingInterval, pollLog>>
logVars == <<handled, posts, postFailed, forwardExits>>

NoMessage == [peerId |-> NoPeer, id |-> 0]

IdleTask ==
    [pc |-> "idle", path |-> "none", msg |-> NoMessage,
     chatUsername |-> S_empty, chatTitle |-> S_empty, chatId |-> S_empty,
     webhookUrl |-> NoUrl, files |-> 0, channelName |-> "none"]

NoIdentity == [chatUsername |-> S_empty, chatTitle |-> S_empty, chatId |-> S_empty]
NoProbe == [op |-> "none", message |-> NoIdentity, target |-> S_empty, result |-> "none"]

\* the history kept of the first handler entries
MaxChecks == 2
Forgotten == <<[path |-> "none", msg |-> NoMessage, result |-> "forgotten"]>>

RecordCheck(path, message, result) ==
    IF firstChecks = Forgotten \/ Len(firstChecks) >= MaxChecks
    THEN Forgotten
    ELSE Append(firstChecks, [path |-> path, msg |-> message, result |-> result])

\* the history of the timer's firings: not kept (NoLog), or for each of the
\* latest firings the channel it asked getMessages for ("none" when it asked
\* nothing) and currentPollIndex as it left it; one entry per channel of the
\* poll list at most
NoLog == <<[asked |-> "off", index |-> 0]>>

RecordTick(channelName, index) ==
    IF pollLog = NoLog
    THEN NoLog
    ELSE LET log == Append(pollLog, [asked |-> channelName, index |-> index])
         IN  IF Len(log) > Len(channelsToPoll) THEN Tail(log) ELSE log

InitCommon ==
    /\ mainPc = "constructed"
    /\ client = "null"
    /\ messageHandler = FALSE
    /\ handlersRegistered = FALSE
    /\ processedMessages = <<>>
    /\ currentPollIndex = 0
    /\ pollingInterval = FALSE
    /\ tasks = EmptyBag
    /\ handled = [m \in Messages |-> 0]
    /\ posts = [m \in Messages |-> 0]
    /\ postFailed = {}
    /\ forwardExits = {}
    /\ firstChecks = <<>>
    /\ lateCalls = {}

Init ==
    /\ InitCommon
    /\ channelsToPoll = <<>>
    /\ pollLog = NoLog
    /\ channelMappings = RunMappings
    /\ probe = NoProbe

(***************************************************************************)
(* main and the life cycle of the listener.                                *)
(***************************************************************************)
\* listener.onMessage(handler)
OnMessage ==
    /\ mainPc = "constructed"
    /\ messageHandler' = TRUE
    /\ mainPc' = "handlerSet"
    /\ UNCHANGED <<client, handlersRegistered, processedMessages, pollVars,
                   channelMappings, tasks, logVars, firstChecks, probe,
                   lateCalls>>

\* setChannelsToPoll(channels)
SetChannelsToPoll ==
    /\ mainPc # "failed"
    /\ \E channels \in PollLists :
          /\ channels # channelsToPoll
          /\ channelsToPoll' = channels
    /\ UNCHANGED <<lifeVars, processedMessages, currentPollIndex, pollingInterval, pollLog,
                   channelMappings, tasks, logVars, firstChecks, probe,
                   lateCalls>>

\* start() that sets up the poll timer before the connection is made
StartBegin_pollsEarly ==
    /\ mainPc = "handlerSet"
    /\ client' = "client"
    /\ mainPc' = "connecting"
    /\ pollingInterval' = TRUE
    /\ UNCHANGED <<messageHandler, handlersRegistered, processedMessages, channelsToPoll,
                   currentPollIndex, pollLog, channelMappings, tasks, logVars,
                   firstChecks, probe,
                   lateCalls>>

\* start() up to await this.client.start(...)
StartBegin ==
    /\ mainPc = "handlerSet"
    /\ client' = "client"
    /\ mainPc' = "connecting"
    /\ UNCHANGED <<messageHandler, handlersRegistered, processedMessages, pollVars,
                   channelMappings, tasks, logVars, firstChecks, probe,
                   lateCalls>>

\* startPolling(): the timer is (re)created unless the list is empty
startPollingTimer(channels) ==
    IF Len(channels) = 0 THEN FALSE ELSE TRUE

\* the connection is up: registerEventHandlers(), startPolling()
StartConnected ==
    /\ mainPc = "connecting"
    /\ handlersRegistered' = TRUE
    /\ pollingInterval' = startPollingTimer(channelsToPoll)
    /\ mainPc' = "running"
    /\ UNCHANGED <<client, messageHandler, processedMessages, channelsToPoll,
                   currentPollIndex, pollLog, channelMappings, tasks, logVars,
                   firstChecks, probe,
                   lateCalls>>

\* client.start() rejects: start() throws, main() exits the process
StartFailed ==
    /\ mainPc = "connecting"
    /\ mainPc' = "failed"
    /\ UNCHANGED <<client, messageHandler, handlersRegistered, processedMessages,
                   pollVars, channelMappings, tasks, logVars, firstChecks, probe,
                   lateCalls>>

\* stop() up to await this.client.disconnect()
StopBegin ==
    /\ mainPc = "running"
    /\ client # "null"
    /\ mainPc' = "stopping"
    /\ UNCHANGED <<client, messageHandler, handlersRegistered, processedMessages,
                   pollVars, channelMappings, tasks, logVars, firstChecks, probe,
                   lateCalls>>

\* stop() after the disconnect: this.client = null
StopEnd ==
    /\ mainPc = "stopping"
    /\ client' = "null"
    /\ mainPc' = "stopped"
    /\ UNCHANGED <<messageHandler, handlersRegistered, processedMessages, pollVars,
                   channelMappings, tasks, logVars, firstChecks, probe,
                   lateCalls>>

(***************************************************************************)
(* The message handler: forwarder.forward(message).                        *)
(***************************************************************************)
\* at most MaxTasks invocations are suspended at a time
Room == BagCardinality(tasks) < MaxTasks

Spawn(t) == tasks (+) SetToBag({t})
Finish(t) == tasks (-) SetToBag({t})
Resume(t, u) == (tasks (-) SetToBag({t})) (+) SetToBag({u})

\* the environment announces messages until one of them was handed to the
\* message handler MaxDeliveries times
Announceable(message) == \A m \in Messages : handled[m] < MaxDeliveries

\* await this.messageHandler({...}): forward() runs findWebhookUrl, then
\* sendToWebhook up to the first await that leaves the process
\* (client.downloadMedia, or axios.post when nothing is downloaded).
\* old is the suspended invocation, t the same with its identity fields set;
\* what stays suspended is sendToWebhook's frame (url, message, files).
InvokeHandler(old, t) ==
    LET message == [chatUsername |-> t.chatUsername, chatTitle |-> t.chatTitle,
                    chatId |-> t.chatId]
        url == findWebhookUrl(channelMappings, message)
    IN  /\ handled' = [handled EXCEPT ![t.msg] = @ + 1]
        /\ UNCHANGED postFailed
        /\ IF url = NoUrl
           THEN /\ tasks' = Finish(old)
                /\ forwardExits' = forwardExits \cup {"returned"}
                /\ UNCHANGED posts
           ELSE IF downloadAttempted(MediaOf(t.msg), client)
           THEN /\ tasks' = Resume(old, [IdleTask EXCEPT !.pc = "download", !.msg = t.msg,
                                                         !.webhookUrl = url])
                /\ UNCHANGED <<posts, forwardExits>>
           ELSE /\ tasks' = Resume(old, [IdleTask EXCEPT !.pc = "post", !.msg = t.msg,
                                                         !.webhookUrl = url])
                /\ posts' = [posts EXCEPT ![t.msg] = @ + 1]
                /\ UNCHANGED forwardExits

\* client.downloadMedia settles; sendToWebhook goes on to axios.post
DownloadReturn(t) ==
    /\ t.pc = "download"
    /\ \E outcome \in DownloadOutcomes :
          tasks' = Resume(t, [t EXCEPT !.pc = "post", !.files = downloadedFiles(outcome)])
    /\ posts' = [posts EXCEPT ![t.msg] = @ + 1]
    /\ UNCHANGED <<lifeVars, processedMessages, pollVars, channelMappings,
                   handled, postFailed, forwardExits, firstChecks, probe,
                   lateCalls>>

\* a delivery that takes the key of a failed message out of the cache again
PostReturn_unmark(t) ==
    /\ t.pc = "post"
    /\ \E outcome \in {"ok", "failed"} :
          /\ forwardExits' =
                 forwardExits \cup {forwardCompletion(sendToWebhookResult(outcome))}
          /\ postFailed' = IF outcome = "failed" /\ postFailed = {}
                           THEN {[msg |-> t.msg, posts |-> posts[t.msg]]}
                           ELSE postFailed
          /\ processedMessages' =
                 IF outcome = "failed"
                 THEN SelectSeq(processedMessages, LAMBDA k : k # messageKey(t.msg))
                 ELSE processedMessages
    /\ tasks' = Finish(t)
    /\ UNCHANGED <<lifeVars, pollVars, channelMappings, handled, posts, firstChecks, probe,
                   lateCalls>>

\* axios.post settles; forward returns, and with it the acquisition handler
PostReturn(t) ==
    /\ t.pc = "post"
    /\ \E outcome \in {"ok", "failed"} :
          /\ forwardExits' =
                 forwardExits \cup {forwardCompletion(sendToWebhookResult(outcome))}
          /\ postFailed' = IF outcome = "failed" /\ postFailed = {}
                           THEN {[msg |-> t.msg, posts |-> posts[t.msg]]}
                           ELSE postFailed
    /\ tasks' = Finish(t)
    /\ UNCHANGED <<lifeVars, processedMessages, pollVars, channelMappings,
                   handled, posts, firstChecks, probe,
                   lateCalls>>

(***************************************************************************)
(* handleRawChannelMessage (raw updates, and the poll tick's message).     *)
(***************************************************************************)
\* the guard that lets a handler go on without a client
guardReturns_open(clientNow, handlerSet) == ~handlerSet

\* if (!this.client || !this.messageHandler) return
guardReturns(clientNow, handlerSet) == clientNow = "null" \/ ~handlerSet

\* a callback returned at its guard: after stop() it is noted in lateCalls
NoteLate(path) ==
    lateCalls' = IF mainPc = "stopped" THEN lateCalls \cup {path} ELSE lateCalls

\* a handler that goes on without a peer
peerPresent_always(message) == TRUE

\* if (!peerId) return   /   "channelId" in peerId throws on a missing peer
peerPresent(message) == message.peerId # NoPeer

\* lines 229-271 for one message on acquisition path `path` (isPolling only
\* selects the log line); rest is the bag of the other suspended invocations
RawAccept(rest, path, message) ==
    IF ~peerPresent(message)
    THEN /\ firstChecks' = RecordCheck(path, message, "nopeer")
         /\ tasks' = rest
         /\ UNCHANGED processedMessages
    ELSE LET check == shouldProcess(processedMessages, messageKey(message))
         IN  /\ processedMessages' = check.cache
             /\ firstChecks' = RecordCheck(path, message,
                                   IF check.process THEN "process" ELSE "discard")
             /\ tasks' = IF check.process
                         THEN rest (+) SetToBag({
                                [IdleTask EXCEPT !.pc = "getEntity", !.path = "raw",
                                                 !.msg = message,
                                                 !.chatId = chatIdForDedup(message.peerId)]})
                         ELSE rest

\* the raw-update handler is called with UpdateNewChannelMessage / UpdateNewMessage
RawUpdate ==
    /\ handlersRegistered
    /\ Room
    /\ \E message \in Messages :
          /\ Announceable(message)
          /\ IF guardReturns(client, messageHandler)
             THEN /\ NoteLate("raw")
                  /\ UNCHANGED <<processedMessages, tasks, firstChecks>>
             ELSE /\ RawAccept(tasks, "raw", message)
                  /\ UNCHANGED lateCalls
    /\ UNCHANGED <<lifeVars, pollVars, channelMappings, logVars, probe>>

\* getEntity(peerId) settles in handleRawChannelMessage; the handler is called
RawEntityReturn(t) ==
    /\ t.pc = "getEntity"
    /\ t.path = "raw"
    /\ \E outcome \in {"entity", "throw"} :
          LET e == Entity(t.msg.peerId)
              u == IF outcome = "entity"
                   THEN [t EXCEPT !.chatUsername = e.username, !.chatTitle = e.title]
                   ELSE t
          IN  InvokeHandler(t, u)
    /\ UNCHANGED <<lifeVars, processedMessages, pollVars, channelMappings,
                   firstChecks, probe,
                   lateCalls>>

(***************************************************************************)
(* handleNewMessage (the NewMessage event handler).                        *)
(***************************************************************************)
\* lines 304-348: guard, dedup key, cache check, up to await event.getChat()
NewMessageEvent ==
    /\ handlersRegistered
    /\ Room
    /\ \E message \in Messages :
          /\ Announceable(message)
          /\ IF guardReturns(client, messageHandler)
             THEN /\ NoteLate("new")
                  /\ UNCHANGED <<processedMessages, tasks, firstChecks>>
             ELSE IF ~peerPresent(message)
             THEN \* the TypeError of line 317 is caught at line 421
                  /\ firstChecks' = RecordCheck("new", message, "nopeer")
                  /\ UNCHANGED <<processedMessages, tasks, lateCalls>>
             ELSE LET check == shouldProcess(processedMessages, messageKey(message))
                  IN  /\ processedMessages' = check.cache
                      /\ firstChecks' = RecordCheck("new", message,
                                            IF check.process THEN "process" ELSE "discard")
                      /\ tasks' = IF check.process
                                  THEN Spawn([IdleTask EXCEPT !.pc = "getChat",
                                                              !.path = "new",
                                                              !.msg = message])
                                  ELSE tasks
                      /\ UNCHANGED lateCalls
    /\ UNCHANGED <<lifeVars, pollVars, channelMappings, logVars, probe>>

\* the fallback entered whatever event.getChat() gave
tier2Needed_always(chatUsername, chatTitle, chatId, message) ==
    peerPresent(message)

\* if (!chatUsername && !chatTitle && !chatId && message.peerId): the peer
\* reference is read and getEntity asked only when tier 1 gave nothing
tier2Needed(chatUsername, chatTitle, chatId, message) ==
    ~Identified(chatUsername, chatTitle, chatId) /\ peerPresent(message)

\* lines 402-420 once the chat is known or the entity lookup is over:
\* the message is skipped when nothing identifies it, else handed on
HandOver(old, t) ==
    IF Identified(t.chatUsername, t.chatTitle, t.chatId)
    THEN InvokeHandler(old, t)
    ELSE /\ tasks' = Finish(old)
         /\ UNCHANGED logVars

\* event.getChat() settles (tier 1); tier 2 reads the peer and asks getEntity
GetChatReturn(t) ==
    /\ t.pc = "getChat"
    /\ \E outcome \in {"chat", "undefined", "throw"} :
          LET peerId == t.msg.peerId
              e == Entity(peerId)
              t1 == IF outcome = "chat"
                    THEN [t EXCEPT !.chatUsername = e.username,
                                   !.chatTitle = e.title,
                                   !.chatId = NatToStr(peerId.id)]
                    ELSE t
          IN  IF tier2Needed(t1.chatUsername, t1.chatTitle, t1.chatId, t.msg)
              THEN IF client = "null"
                   THEN \* this.client.getEntity throws a TypeError, caught at line 394
                        HandOver(t, [t1 EXCEPT !.chatId = peerIdString(peerId)])
                   ELSE /\ tasks' = Resume(t, [t1 EXCEPT !.pc = "getEntity",
                                                         !.chatId = peerIdString(peerId)])
                        /\ UNCHANGED logVars
              ELSE HandOver(t, t1)
    /\ UNCHANGED <<lifeVars, processedMessages, pollVars, channelMappings,
                   firstChecks, probe,
                   lateCalls>>

\* getEntity(peerId) settles in handleNewMessage (tier 3)
NewEntityReturn(t) ==
    /\ t.pc = "getEntity"
    /\ t.path = "new"
    /\ \E outcome \in {"entity", "throw"} :
          LET e == Entity(t.msg.peerId)
              u == IF outcome = "entity"
                   THEN [t EXCEPT !.chatUsername = e.username, !.chatTitle = e.title]
                   ELSE t
          IN  HandOver(t, u)
    /\ UNCHANGED <<lifeVars, processedMessages, pollVars, channelMappings,
                   firstChecks, probe,
                   lateCalls>>

(***************************************************************************)
(* The poll timer callback (startPolling, lines 159-183).                  *)
(***************************************************************************)
\* this.channelsToPoll[this.currentPollIndex]
pollChannel(channels, index) ==
    IF index < Len(channels) THEN channels[index + 1] ELSE "undefined"

\* (this.currentPollIndex + 1) % this.channelsToPoll.length
nextPollIndex(channels, index) == (index + 1) % Len(channels)

\* the timer fires: lines 160-168, up to await getMessages
PollTick ==
    /\ pollingInterval
    /\ Room
    /\ IF Len(channelsToPoll) = 0 \/ client = "null"
       THEN /\ pollLog' = RecordTick("none", currentPollIndex)
            /\ NoteLate("poll")
            /\ UNCHANGED <<currentPollIndex, tasks>>
       ELSE /\ currentPollIndex' = nextPollIndex(channelsToPoll, currentPollIndex)
            /\ pollLog' = RecordTick(pollChannel(channelsToPoll, currentPollIndex),
                                     nextPollIndex(channelsToPoll, currentPollIndex))
            /\ tasks' = Spawn([IdleTask EXCEPT
                                  !.pc = "getMessages", !.path = "poll",
                                  !.channelName =
                                      pollChannel(channelsToPoll, currentPollIndex)])
            /\ UNCHANGED lateCalls
    /\ UNCHANGED <<lifeVars, processedMessages, channelsToPoll, pollingInterval,
                   channelMappings, logVars, firstChecks, probe>>

\* the messages getMessages(channelName, {limit: 1}) can give: the most recent
\* message of the channel; with an undefined name the library searches all chats
Fetchable(channelName) ==
    IF channelName = "undefined"
    THEN Messages
    ELSE {m \in Messages : m.peerId \in {ResolvePoll(channelName), NoPeer}}

\* getMessages settles: an exception and an empty list end the tick, a message
\* goes to handleRawChannelMessage(message, true)
GetMessagesReturn(t) ==
    /\ t.pc = "getMessages"
    /\ \/ /\ tasks' = Finish(t)
          /\ UNCHANGED <<processedMessages, firstChecks>>
       \/ \E message \in Fetchable(t.channelName) :
             /\ Announceable(message)
             /\ IF guardReturns(client, messageHandler)
                THEN /\ tasks' = Finish(t)
                     /\ UNCHANGED <<processedMessages, firstChecks>>
                ELSE RawAccept(Finish(t), "poll", message)
    /\ UNCHANGED <<lifeVars, pollVars, channelMappings, logVars, probe,
                   lateCalls>>

(***************************************************************************)
(* The running system.                                                     *)
(***************************************************************************)
Next ==
    \/ OnMessage
    \/ SetChannelsToPoll
    \/ StartBegin
    \/ StartConnected
    \/ StartFailed
    \/ StopBegin
    \/ StopEnd
    \/ NewMessageEvent
    \/ RawUpdate
    \/ PollTick
    \/ \E t \in BagToSet(tasks) : GetChatReturn(t)
    \/ \E t \in BagToSet(tasks) : NewEntityReturn(t)
    \/ \E t \in BagToSet(tasks) : RawEntityReturn(t)
    \/ \E t \in BagToSet(tasks) : GetMessagesReturn(t)
    \/ \E t \in BagToSet(tasks) : DownloadReturn(t)
    \/ \E t \in BagToSet(tasks) : PostReturn(t)

Spec == Init /\ [][Next]_vars

(***************************************************************************)
(* The poller on its own: a listener given a non-empty poll list before    *)
(* start() and never another one, with the poll ticks as the only source   *)
(* of messages.                                                            *)
(***************************************************************************)
InitPoll ==
    /\ InitCommon
    /\ channelsToPoll \in PollLists \ {<<>>}
    /\ pollLog = <<>>
    /\ channelMappings = RunMappings
    /\ probe = NoProbe

NextPoll ==
    \/ OnMessage
    \/ StartBegin
    \/ StartConnected
    \/ StartFailed
    \/ StopBegin
    \/ StopEnd
    \/ PollTick
    \/ \E t \in BagToSet(tasks) : RawEntityReturn(t)
    \/ \E t \in BagToSet(tasks) : GetMessagesReturn(t)
    \/ \E t \in BagToSet(tasks) : DownloadReturn(t)
    \/ \E t \in BagToSet(tasks) : PostReturn(t)

SpecPoll == InitPoll /\ [][NextPoll]_vars

(***************************************************************************)
(* Identity resolution on its own: what each handler hands to the message  *)
(* handler for a peer of any kind, by what getChat and getEntity do.       *)
(***************************************************************************)
ResolvePeers == [kind : PeerKinds, id : {42, 43, 44}]

\* handleNewMessage, lines 350-400: the identity after the tiers
resolveNew(peerId, chatOutcome, entityOutcome) ==
    LET e == Entity(peerId)
        message == [peerId |-> peerId, id |-> MinMsgId]
        t1 == IF chatOutcome = "chat"
              THEN [chatUsername |-> e.username, chatTitle |-> e.title,
                    chatId |-> NatToStr(peerId.id)]
              ELSE NoIdentity
    IN  IF tier2Needed(t1.chatUsername, t1.chatTitle, t1.chatId, message)
        THEN IF entityOutcome = "entity"
             THEN [chatUsername |-> e.username, chatTitle |-> e.title,
                   chatId |-> peerIdString(peerId)]
             ELSE [NoIdentity EXCEPT !.chatId = peerIdString(peerId)]
        ELSE t1

\* handleRawChannelMessage, lines 268-285
resolveRaw(peerId, entityOutcome) ==
    LET e == Entity(peerId)
    IN  IF entityOutcome = "entity"
        THEN [chatUsername |-> e.username, chatTitle |-> e.title,
              chatId |-> chatIdForDedup(peerId)]
        ELSE [NoIdentity EXCEPT !.chatId = chatIdForDedup(peerId)]

InitResolve ==
    /\ InitCommon
    /\ channelsToPoll = <<>>
    /\ pollLog = NoLog
    /\ channelMappings = RunMappings
    /\ \E peerId \in ResolvePeers, chatOutcome \in {"chat", "undefined", "throw"},
          entityOutcome \in {"entity", "throw"} :
          probe = [op |-> "none", peerId |-> peerId, chat |-> chatOutcome,
                   entity |-> entityOutcome, result |-> NoIdentity]

\* the NewMessage handler resolves the drawn peer
CallResolveNew ==
    /\ probe.op = "none"
    /\ probe' = [probe EXCEPT !.op = "handleNewMessage",
                              !.result = resolveNew(probe.peerId, probe.chat, probe.entity)]
    /\ UNCHANGED <<lifeVars, processedMessages, pollVars, channelMappings, tasks,
                   logVars, firstChecks,
                   lateCalls>>

\* the raw-update handler resolves the drawn peer
CallResolveRaw ==
    /\ probe.op = "none"
    /\ probe' = [probe EXCEPT !.op = "handleRawChannelMessage",
                              !.result = resolveRaw(probe.peerId, probe.entity)]
    /\ UNCHANGED <<lifeVars, processedMessages, pollVars, channelMappings, tasks,
                   logVars, firstChecks,
                   lateCalls>>

NextResolve == CallResolveNew \/ CallResolveRaw

SpecResolve == InitResolve /\ [][NextResolve]_vars

(***************************************************************************)
(* The matcher and the route lookup on their own: a forwarder constructed  *)
(* with any mapping list, asked about any message identity.                *)
(***************************************************************************)
Usernames == {S_empty, S_news, S_atNews, S_12345}
Titles == {S_empty, S_News, S_atNews, S_12345}
ChatIds == {S_empty, S_12345, S_42}
Selectors == {S_atNews, S_news, S_12345, S_42}
Urls == {"urlA", "urlB"}

Identities == [chatUsername : Usernames, chatTitle : Titles, chatId : ChatIds]

RECURSIVE SeqsUpTo(_, _)
\* the sequences over S of length at most n
SeqsUpTo(S, n) ==
    IF n = 0
    THEN {<<>>}
    ELSE LET shorter == SeqsUpTo(S, n - 1)
         IN  shorter \cup {Append(q, x) : q \in {r \in shorter : Len(r) = n - 1}, x \in S}

MappingLists == SeqsUpTo([telegramChannel : Selectors, webhookUrl : Urls], MaxMappings)

InitMatch ==
    /\ InitCommon
    /\ channelsToPoll = <<>>
    /\ pollLog = NoLog
    /\ channelMappings \in MappingLists
    /\ \E identity \in Identities : probe = [NoProbe EXCEPT !.message = identity]

\* matchesChannel(message, target)
CallMatchesChannel ==
    /\ \E target \in Selectors :
          probe' = [probe EXCEPT !.op = "matchesChannel", !.target = target,
                                 !.result = IF matchesChannel(probe.message, target)
                                            THEN "true" ELSE "false"]
    /\ UNCHANGED <<lifeVars, processedMessages, pollVars, channelMappings, tasks,
                   logVars, firstChecks,
                   lateCalls>>

\* forward(message): the destinations it POSTs to (sendToWebhook issues one
\* axios.post to the url found, none when findWebhookUrl gives null)
forwardDestinations(mappings, message) ==
    LET url == findWebhookUrl(mappings, message)
    IN  IF url = NoUrl THEN {} ELSE {url}

CallForward ==
    /\ probe' = [probe EXCEPT !.op = "forward", !.target = S_empty,
                              !.result = forwardDestinations(channelMappings,
                                                             probe.message)]
    /\ UNCHANGED <<lifeVars, processedMessages, pollVars, channelMappings, tasks,
                   logVars, firstChecks,
                   lateCalls>>

NextMatch == CallMatchesChannel \/ CallForward

SpecMatch == InitMatch /\ [][NextMatch]_vars

(***************************************************************************)
(* sendToWebhook on its own: any text, any media, the client present or    *)
(* already set to null by stop(), any outcome of client.downloadMedia.     *)
(***************************************************************************)
\* a text of n characters whose characters differ by position
TextOfLen(n) == [i \in 1..n |-> Digit(i % 10)]
TextLengths == {0, 1, 3997, 4000, 4001, 4500}

DocumentSizes == {1000000, maxSize, maxSize + 1, 9000000}
MediaValues ==
    {NoMedia, [kind |-> "other", size |-> 0, present |-> TRUE]}
        \cup [kind : {"photo"}, size : {1000000, 9000000}, present : BOOLEAN]
        \cup [kind : {"document"}, size : DocumentSizes, present : BOOLEAN]

NoSend == [description |-> S_empty, attempted |-> FALSE, files |-> 0, bytes |-> 0,
           posts |-> 0, request |-> "none"]

InitSend ==
    /\ InitCommon
    /\ channelsToPoll = <<>>
    /\ pollLog = NoLog
    /\ channelMappings = RunMappings
    /\ \E n \in TextLengths, media \in MediaValues,
          clientNow \in {"client", "null"}, outcome \in DownloadOutcomes :
          probe = [op |-> "none", text |-> TextOfLen(n), media |-> media,
                   clientNow |-> clientNow, download |-> outcome, result |-> NoSend]

\* sendToWebhook(url, message, sourceName) for the drawn message
CallSendToWebhook ==
    /\ probe.op = "none"
    /\ probe' = [probe EXCEPT !.op = "sendToWebhook",
                              !.result = sendToWebhook(probe.text, probe.media,
                                                       probe.clientNow, probe.download)]
    /\ UNCHANGED <<lifeVars, processedMessages, pollVars, channelMappings, tasks,
                   logVars, firstChecks,
                   lateCalls>>

NextSend == CallSendToWebhook

SpecSend == InitSend /\ [][NextSend]_vars

(***************************************************************************)
(* Properties.                                                             *)
(***************************************************************************)
PushPaths == {"new", "raw"}

\* no invocation working on message m is suspended
Quiet(m) == \A t \in BagToSet(tasks) : t.msg # m

\* m is routed by its peer id alone, whatever the entity lookups give
RoutedById(m) ==
    findWebhookUrl(channelMappings,
                   [NoIdentity EXCEPT !.chatId = NatToStr(m.peerId.id)]) # NoUrl

\* the run so far consists of two handler entries, both for message m, one on
\* a push path and one from a poll tick
PushAndPoll(m) ==
    /\ Len(firstChecks) = 2
    /\ firstChecks[1].msg = m
    /\ firstChecks[2].msg = m
    /\ \/ firstChecks[1].path \in PushPaths /\ firstChecks[2].path = "poll"
       \/ firstChecks[1].path = "poll" /\ firstChecks[2].path \in PushPaths

\* C1: a message seen once by a push handler and once by a poll tick, in any
\* interleaving of the two, is handed to the message handler exactly once and
\* results in exactly one POST
C1_PushAndPollDeliverOnce ==
    \A m \in Messages :
        (peerPresent(m) /\ PushAndPoll(m) /\ Quiet(m))
            => /\ handled[m] = 1
               /\ posts[m] = IF RoutedById(m) THEN 1 ELSE 0

C1_Witness ==
    LET m == [peerId |-> Channel42, id |-> MinMsgId]
    IN  /\ PushAndPoll(m)
        /\ Quiet(m)
        /\ firstChecks[1].path = "poll"
        /\ firstChecks[2].result = "discard"
        /\ handled[m] = 1
        /\ posts[m] = 1

\* C2: no message is handed to the forwarder more than once, however many
\* messages were accepted in between
C2_NeverHandedOverTwice == \A m \in Messages : handled[m] <= 1

\* C3: a dedup check of a key not in the cache says "process"; a check of the
\* same key right after it says "discard" and leaves the cache as it is
C3_SecondCheckDiscards ==
    /\ \A m \in Messages :
          peerPresent(m) =>
              LET k == messageKey(m)
                  first == shouldProcess(processedMessages, k)
                  second == shouldProcess(first.cache, k)
              IN  /\ ~SetHas(processedMessages, k) => first.process
                  /\ ~second.process
                  /\ second.cache = first.cache
    /\ (/\ Len(firstChecks) = 2
        /\ firstChecks[1].result = "process"
        /\ firstChecks[2].result # "nopeer"
        /\ messageKey(firstChecks[1].msg) = messageKey(firstChecks[2].msg))
           => firstChecks[2].result = "discard"

C3_Witness ==
    /\ Len(firstChecks) = 2
    /\ firstChecks[1].result = "process"
    /\ firstChecks[2].result = "discard"
    /\ messageKey(firstChecks[1].msg) = messageKey(firstChecks[2].msg)
    /\ SetHas(processedMessages, messageKey(firstChecks[1].msg))

\* the number of keys one eviction removes: the loop runs while i < C/2,
\* that is C/2 times for an even capacity such as 1000
EvictCount == (MAX_CACHE_SIZE + 1) \div 2

\* the cache after key k was inserted into cache c, as the claim describes it
AfterInsert(c, k) ==
    IF Len(c) + 1 > MAX_CACHE_SIZE
    THEN SubSeq(Append(c, k), EvictCount + 1, Len(c) + 1)
    ELSE Append(c, k)

\* a step in which a handler accepts message m: a new invocation for m is
\* suspended at its first lookup (getChat in handleNewMessage, getEntity in
\* handleRawChannelMessage)
AcceptStep(m) ==
    \E t \in BagToSet(tasks') :
        /\ t.msg = m
        /\ t.pc = "getChat" \/ (t.pc = "getEntity" /\ t.path = "raw")
        /\ CopiesIn(t, tasks') > CopiesIn(t, tasks)

\* C4: the cache never holds more than MAX_CACHE_SIZE keys; an insert that
\* exceeds the capacity removes exactly the EvictCount oldest keys, in
\* insertion order, and keeps the key just inserted; nothing but an accepted
\* message changes the cache
C4_BoundedOldestHalfEvicted ==
    /\ [](Len(processedMessages) <= MAX_CACHE_SIZE)
    /\ [][/\ \A m \in Messages :
                AcceptStep(m) =>
                    /\ ~SetHas(processedMessages, messageKey(m))
                    /\ processedMessages' = AfterInsert(processedMessages, messageKey(m))
                    /\ SetHas(processedMessages', messageKey(m))
          /\ processedMessages' # processedMessages
                => \E m \in Messages : AcceptStep(m)]_vars

\* a message was handed over, its key is no longer cached, and the cache holds
\* what an eviction leaves
C4_Witness ==
    /\ Len(processedMessages) = MAX_CACHE_SIZE + 1 - EvictCount
    /\ \E m \in Messages :
          handled[m] >= 1 /\ ~SetHas(processedMessages, messageKey(m))

\* C5: a message that no tier can identify (it has no peer) never reaches the
\* forwarder on any path: no invocation is kept for it, no POST is made
C5_UnidentifiedDropped ==
    \A m \in Messages :
        ~(m.peerId \in Peers) =>
            /\ handled[m] = 0
            /\ posts[m] = 0
            /\ Quiet(m)

C5_Witness ==
    /\ Len(firstChecks) = 2
    /\ firstChecks[1].result = "nopeer"
    /\ firstChecks[2].result = "nopeer"
    /\ firstChecks[1].path = "new"
    /\ firstChecks[2].path = "poll"
    /\ tasks = EmptyBag

\* C6: once a POST for a message has failed, no further POST is made for that
\* message (its key stays cached and later observations are discarded)
C6_NoPostAfterFailure == \A f \in postFailed : posts[f.msg] = f.posts

\* C7: forward never ends with an exception
C7_ForwardNeverThrows == ~("threw" \in forwardExits)

C7_Witness == postFailed # {} /\ "returned" \in forwardExits

\* C8 as stated: selector "12345" matches no message whose channel id differs
\* from it, whatever the username and the title
C8_NumericSelectorOnlyById ==
    (probe.op = "matchesChannel" /\ probe.target = S_12345
        /\ probe.message.chatId # S_12345)
        => probe.result = "false"

\* C8, amended: selector "12345" matches exactly the messages whose channel
\* id is "12345", or whose username (one leading "@" dropped) or title is
\* "12345"
C8_NumericSelectorMatches ==
    (probe.op = "matchesChannel" /\ probe.target = S_12345)
        => (probe.result = "true" <=>
               \/ probe.message.chatId = S_12345
               \/ StripAt(probe.message.chatUsername) = S_12345
               \/ probe.message.chatTitle = S_12345)

C8_Witness ==
    /\ probe.op = "matchesChannel"
    /\ probe.target = S_12345
    /\ probe.message = [chatUsername |-> S_news, chatTitle |-> S_News, chatId |-> S_12345]
    /\ probe.result = "true"

\* C9: selector "@News" matches username "news" and username "@News"; a
\* username matches when it equals the selector up to case and one leading
\* "@" on either side; a title matches when its lower-cased form equals the
\* lower-cased, "@"-stripped selector, or when it equals the selector verbatim
C9_UsernameTitleMatching ==
    probe.op = "matchesChannel" =>
        /\ (probe.target = S_atNews /\ probe.message.chatUsername \in {S_news, S_atNews})
               => probe.result = "true"
        /\ (/\ Truthy(probe.message.chatUsername)
            /\ toLowerCase(StripAt(probe.message.chatUsername))
                   = toLowerCase(StripAt(probe.target)))
               => probe.result = "true"
        /\ (/\ Truthy(probe.message.chatTitle)
            /\ \/ toLowerCase(probe.message.chatTitle) = toLowerCase(StripAt(probe.target))
               \/ probe.message.chatTitle = probe.target)
               => probe.result = "true"

C9_Witness ==
    /\ probe.op = "matchesChannel"
    /\ probe.target = S_atNews
    /\ probe.message = [chatUsername |-> S_news, chatTitle |-> S_empty, chatId |-> S_empty]
    /\ probe.result = "true"

\* the mappings, by position, whose selector matches the probed message
Matching == {i \in 1..Len(channelMappings) :
                matchesChannel(probe.message, channelMappings[i].telegramChannel)}

\* C10: forward POSTs to at most one destination, the url of the first
\* matching mapping in configuration order, and to none when none matches
C10_FirstMatchOnly ==
    probe.op = "forward" =>
        IF Matching = {}
        THEN probe.result = {}
        ELSE \E i \in Matching :
                /\ \A j \in Matching : i <= j
                /\ probe.result = {channelMappings[i].webhookUrl}

C10_Witness ==
    /\ probe.op = "forward"
    /\ Cardinality(Matching) = 2
    /\ channelMappings[1].webhookUrl # channelMappings[2].webhookUrl
    /\ probe.result = {channelMappings[1].webhookUrl}

\* C11 as stated: a document larger than 8 MiB is not downloaded, nothing is
\* attached and the embed is POSTed as JSON; a document of at most 8 MiB is
\* downloaded and attached when the download succeeds; a photo is downloaded
\* whatever its size
C11_SizeGateAsStated ==
    probe.op = "sendToWebhook" =>
        /\ (probe.media.kind = "document" /\ probe.media.present
               /\ probe.media.size > maxSize)
              => /\ ~probe.result.attempted
                 /\ probe.result.files = 0
                 /\ probe.result.posts = 1
                 /\ probe.result.request = "json"
        /\ (probe.media.kind = "document" /\ probe.media.present
               /\ probe.media.size <= maxSize)
              => /\ probe.result.attempted
                 /\ probe.download = "buffer" => probe.result.files = 1
        /\ probe.media.kind = "photo" => probe.result.attempted

\* C11, amended: the same, where the client is still set when downloadMedia
\* runs and the media carries its photo / document; without a client, or
\* without the photo / document object, nothing is downloaded and the embed
\* goes out as JSON
C11_SizeGate ==
    probe.op = "sendToWebhook" =>
        /\ (probe.media.kind = "document" /\ probe.media.present
               /\ probe.media.size > maxSize)
              => /\ ~probe.result.attempted
                 /\ probe.result.files = 0
                 /\ probe.result.posts = 1
                 /\ probe.result.request = "json"
        /\ (probe.media.kind = "document" /\ probe.media.present
               /\ probe.media.size <= maxSize /\ probe.clientNow # "null")
              => /\ probe.result.attempted
                 /\ probe.download = "buffer"
                       => probe.result.files = 1 /\ probe.result.request = "multipart"
        /\ (probe.media.kind = "photo" /\ probe.media.present
               /\ probe.clientNow # "null")
              => probe.result.attempted
        /\ (probe.clientNow = "null" \/ ~probe.media.present)
              => /\ ~probe.result.attempted
                 /\ probe.result.posts = 1
                 /\ probe.result.request = "json"

C11_Witness ==
    /\ probe.op = "sendToWebhook"
    /\ probe.media = Document(9000000)
    /\ probe.clientNow = "client"
    /\ probe.download = "buffer"
    /\ ~probe.result.attempted
    /\ probe.result.request = "json"

\* C12: the description is never longer than 4000; a text of at most 4000
\* characters is delivered as it is, a longer one as its first 3997
\* characters followed by "...", 4000 characters in all
C12_Truncation ==
    probe.op = "sendToWebhook" =>
        LET d == probe.result.description
        IN  /\ Len(d) <= 4000
            /\ Len(probe.text) <= 4000 => d = probe.text
            /\ Len(probe.text) > 4000
                  => /\ Len(d) = 4000
                     /\ SubSeq(d, 1, 3997) = SubSeq(probe.text, 1, 3997)
                     /\ SubSeq(d, 3998, 4000) = S_dots

C12_Witness ==
    /\ probe.op = "sendToWebhook"
    /\ Len(probe.text) = 4500
    /\ Len(probe.result.description) = 4000
    /\ probe.result.description[4000] = "."
    /\ probe.result.description[3997] = probe.text[3997]

\* C13: a download that throws or brings no bytes leaves the message without
\* media: one POST, as JSON; the request is multi-part exactly when the
\* bytes of an attachment were obtained
C13_MultipartIffBytes ==
    probe.op = "sendToWebhook" =>
        /\ probe.result.posts = 1
        /\ probe.result.request = "multipart" <=> probe.result.bytes > 0
        /\ (probe.result.attempted /\ probe.download # "buffer")
              => probe.result.request = "json"

\* an invocation suspended at getEntity
AtGetEntity(t) == t.pc = "getEntity"

\* invocation t stops being suspended where it is
Leaves(t) == CopiesIn(t, tasks') < CopiesIn(t, tasks)

\* C14 as stated: once a tier has yielded a username, a title or an id, no
\* entity lookup is issued
C14_NoLookupOnceIdentified ==
    \A t \in BagToSet(tasks) :
        AtGetEntity(t) => ~Identified(t.chatUsername, t.chatTitle, t.chatId)

\* C14, amended: no later tier runs once tier 1 (the chat of the event) has
\* yielded a field; when it yielded nothing, the id is read from the peer
\* reference and the entity lookup is issued all the same, as it always is in
\* handleRawChannelMessage; a failing tier does not end the pipeline: after a
\* failed getChat the id is read and the lookup issued, after a failed lookup
\* the message is handed over with the id alone
C14_TiersInOrder ==
    /\ [](\A t \in BagToSet(tasks) :
             AtGetEntity(t) =>
                 /\ t.chatUsername = S_empty
                 /\ t.chatTitle = S_empty
                 /\ t.chatId = IF t.path = "new" THEN peerIdString(t.msg.peerId)
                               ELSE chatIdForDedup(t.msg.peerId))
    /\ [][\A t \in BagToSet(tasks) :
             /\ (AtGetEntity(t) /\ Leaves(t))
                   => handled'[t.msg] = handled[t.msg] + 1
             /\ (t.pc = "getChat" /\ Leaves(t))
                   => \/ handled'[t.msg] = handled[t.msg] + 1
                      \/ \E u \in BagToSet(tasks') :
                            /\ AtGetEntity(u) /\ u.path = "new" /\ u.msg = t.msg
                            /\ CopiesIn(u, tasks') > CopiesIn(u, tasks)]_vars

\* tier 1 gave nothing for a message of channel 42, the id was read from the
\* peer and the entity lookup is under way; another message was handed over
C14_Witness ==
    /\ \E t \in BagToSet(tasks) :
          AtGetEntity(t) /\ t.path = "new" /\ t.chatId = S_42
    /\ \E m \in Messages : handled[m] = 1

\* C15: with a fixed poll list of N channels every firing of the poll timer
\* asks getMessages for one channel and advances the index by one modulo N,
\* so that the latest N firings asked for every channel of the list exactly
\* once
C15_RoundRobin ==
    LET N == Len(channelsToPoll)
    IN  pollLog # NoLog =>
            /\ \A i \in 1..Len(pollLog) : pollLog[i].asked # "none"
            /\ \A i \in 1..(Len(pollLog) - 1) :
                  pollLog[i + 1].index = (pollLog[i].index + 1) % N
            /\ Len(pollLog) = N =>
                  \A j \in 1..N :
                      Cardinality({i \in 1..N : pollLog[i].asked = channelsToPoll[j]}) = 1

\* C16: after stop() the client is disconnected and no poll timer remains
\* registered
C16_StopClearsTimer ==
    mainPc = "stopped" => (client = "null" /\ ~pollingInterval)

\* C17: invocations of the handlers and of the timer callback never overlap:
\* while one is suspended at an await no other has begun
C17_NoOverlap == BagCardinality(tasks) <= 1

\* the order of the life cycle: constructed and handler set (disconnected),
\* connecting, running (subscribed, polling when a poll list was given),
\* stopping and stopped; a failed connect ends it
LifeOrder ==
    {<<"constructed", "handlerSet">>, <<"handlerSet", "connecting">>,
     <<"connecting", "running">>, <<"connecting", "failed">>,
     <<"running", "stopping">>, <<"stopping", "stopped">>}

\* C18: the timer exists only once the handlers are registered, and both only
\* once the connection is made; after a failed connect neither exists and no
\* invocation ever began; from the start of polling until stop() completes the
\* handlers stay registered, the timer stays and the client stays set
C18_LifeCycle ==
    /\ [](/\ pollingInterval => handlersRegistered
          /\ handlersRegistered => mainPc \in {"running", "stopping", "stopped"}
          /\ mainPc \in {"constructed", "handlerSet", "connecting", "failed"}
                => /\ ~handlersRegistered
                   /\ ~pollingInterval
                   /\ tasks = EmptyBag
                   /\ \A m \in Messages : handled[m] = 0
          /\ mainPc \in {"running", "stopping"}
                => handlersRegistered /\ client # "null")
    /\ [][/\ mainPc' # mainPc => <<mainPc, mainPc'>> \in LifeOrder
          /\ handlersRegistered => handlersRegistered'
          /\ pollingInterval => pollingInterval']_vars

\* the connection is up, a poll tick has fired and a pushed message is being
\* resolved at the same time
C18_Witness ==
    /\ mainPc = "running"
    /\ pollingInterval
    /\ handlersRegistered
    /\ \E t \in BagToSet(tasks) : t.pc = "getMessages"
    /\ \E t \in BagToSet(tasks) : t.pc = "getChat"

\* C19: where tier 2 reads the id off the peer reference (tier 1 gave
\* nothing), the id is the peer's channel id, else its chat id, else its user
\* id: the value the dedup key is built from, for a chat peer too
C19_Tier2Precedence ==
    (probe.op = "handleNewMessage" /\ probe.chat # "chat")
        => probe.result.chatId = chatIdForDedup(probe.peerId)

\* the keys of cache c
Keys(c) == {c[i] : i \in 1..Len(c)}

\* C20: the key is in the cache as soon as the message is accepted, before
\* any lookup; the cache changes only in the step that accepts a message,
\* where the new key is appended, the keys that stay keep their order, and
\* keys are removed only when the insert exceeds the capacity; resolution,
\* routing, download and delivery leave it as it is; a lookup is issued only
\* for a message whose key was not cached, and the message handler is called
\* only at the end of a lookup
C20_CacheFrame ==
    [][/\ \A m \in Messages :
             AcceptStep(m) =>
                 /\ ~SetHas(processedMessages, messageKey(m))
                 /\ SetHas(processedMessages', messageKey(m))
       /\ processedMessages' # processedMessages =>
             /\ \E m \in Messages : AcceptStep(m)
             /\ \E k \in Keys(processedMessages') \ Keys(processedMessages),
                   n \in 0..Len(processedMessages) :
                   processedMessages' =
                       SubSeq(Append(processedMessages, k), n + 1,
                              Len(processedMessages) + 1)
             /\ ~(Keys(processedMessages) \subseteq Keys(processedMessages'))
                   => Len(processedMessages) + 1 > MAX_CACHE_SIZE
       /\ handled' # handled =>
             /\ processedMessages' = processedMessages
             /\ \E t \in BagToSet(tasks) :
                   /\ t.pc \in {"getChat", "getEntity"}
                   /\ Leaves(t)
                   /\ handled' = [handled EXCEPT ![t.msg] = @ + 1]]_vars

\* a delivery has failed and the key of its message is still cached
C20_Witness ==
    /\ \E f \in postFailed :
          /\ SetHas(processedMessages, messageKey(f.msg))
          /\ Quiet(f.msg)
    /\ Len(processedMessages) = 1

\* C21: a message is discarded as a duplicate only when the same message
\* (same peer, kind and id, and same message id) was accepted before: when
\* the second handler entry of a run is discarded, the first was for that
\* very message
C21_DiscardOnlySameMessage ==
    (Len(firstChecks) = 2 /\ firstChecks[2].result = "discard")
        => /\ firstChecks[1].result = "process"
           /\ firstChecks[1].msg = firstChecks[2].msg

\* C23: the route does not depend on the handler that resolves the message:
\* with the same outcomes of getChat and getEntity, the identity the
\* NewMessage handler hands over selects the url that the identity of the
\* raw-update handler (and the poll tick) selects
C23_RouteSameOnEveryPath ==
    probe.op = "handleNewMessage" =>
        findWebhookUrl(channelMappings, probe.result)
            = findWebhookUrl(channelMappings, resolveRaw(probe.peerId, probe.entity))

\* C24: the index stays inside a non-empty poll list, and every getMessages
\* request names a channel of the list
C24_IndexInRange ==
    /\ Len(channelsToPoll) > 0 => currentPollIndex < Len(channelsToPoll)
    /\ \A t \in BagToSet(tasks) :
          t.pc = "getMessages" => t.channelName \in PollNames

\* an invocation is suspended in tasks' that was not in tasks
Begins(t) == CopiesIn(t, tasks') > CopiesIn(t, tasks)

\* C22: once stop() has completed, no step begins an invocation or issues a
\* getMessages, getChat or getEntity request, none changes the cache, and the
\* message handler is called only by an invocation that was already
\* suspended when stop() completed
C22_NothingBeginsAfterStop ==
    [][mainPc = "stopped" =>
          /\ client = "null"
          /\ \A t \in BagToSet(tasks') :
                Begins(t) => t.pc \in {"download", "post"}
          /\ BagCardinality(tasks') <= BagCardinality(tasks)
          /\ processedMessages' = processedMessages
          /\ handled' # handled =>
                \E t \in BagToSet(tasks) :
                    t.pc \in {"getChat", "getEntity"} /\ Leaves(t)]_vars

\* after stop() a poll tick, a NewMessage event and a raw update have come in
\* and nothing was begun
C22_Witness ==
    /\ mainPc = "stopped"
    /\ lateCalls = {"new", "raw", "poll"}
    /\ tasks = EmptyBag
    /\ processedMessages = <<>>

====
